---- MODULE Spec2Model ----
(***************************************************************************)
(* Model of the stock search service (src/src/stock_api.py): the text      *)
(* normalisers, the price parser, the intent-to-predicate compiler         *)
(* build_sql, the store read, the fuzzy fallback and the ranking pipeline  *)
(* of the /search handler.                                                 *)
(*                                                                         *)
(* Text is a sequence of character tokens.  A token is a one-character     *)
(* string for ASCII characters and a short name for the others:            *)
(*   "yeh_ar" U+064A   "yeh" U+06CC   "kaf_ar" U+0643   "keheh" U+06A9     *)
(*   "zwnj" U+200C     "tatweel" U+0640   "tab" U+0009   "?ar" U+061F      *)
(*   "sep" U+066C      "dash" U+2014   "p0".."p9" U+06F0..U+06F9           *)
(* and the Persian letters of the keyword list by their Unicode names.     *)
(* The SQL NULL / Python None of a text column is the value NULL; an       *)
(* Optional[int] is <<>> (None) or <<n>>.                                  *)
(***************************************************************************)
EXTENDS Integers, Sequences, FiniteSets, TLC

NULL == <<"NULL">>
None == <<>>
Some(n) == <<n>>

Min2(a, b) == IF a <= b THEN a ELSE b
Max2(a, b) == IF a >= b THEN a ELSE b

(***************************************************************************)
(* Character classes.                                                      *)
(***************************************************************************)
\* Python's \s and str.strip() whitespace
IsSpace(c) == c \in {" ", "tab"}

\* Python's \d: ASCII digits and the other Unicode decimal digits
IsDigit(c) == c \in {"0", "1", "2", "3", "4", "5", "6", "7", "8", "9",
                     "p0", "p1", "p2", "p3", "p4", "p5", "p6", "p7", "p8", "p9"}

\* the value int() gives a decimal digit
DigitValue(c) ==
    CASE c \in {"0", "p0"} -> 0 [] c \in {"1", "p1"} -> 1
      [] c \in {"2", "p2"} -> 2 [] c \in {"3", "p3"} -> 3
      [] c \in {"4", "p4"} -> 4 [] c \in {"5", "p5"} -> 5
      [] c \in {"6", "p6"} -> 6 [] c \in {"7", "p7"} -> 7
      [] c \in {"8", "p8"} -> 8 [] c \in {"9", "p9"} -> 9

\* str.lower() on one character
LowerChar(c) ==
    CASE c = "A" -> "a" [] c = "B" -> "b" [] c = "F" -> "f"
      [] c = "S" -> "s" [] c = "L" -> "l" [] OTHER -> c

(***************************************************************************)
(* Sequence helpers standing for Python's str methods.                     *)
(***************************************************************************)
MapText(s, f(_)) == [i \in 1..Len(s) |-> f(s[i])]

\* str.replace(c, "")
RemoveChar(s, c) == SelectSeq(s, LAMBDA x : x # c)

\* str.replace(a, b) for single characters
ReplaceChar(s, a, b) == [i \in 1..Len(s) |-> IF s[i] = a THEN b ELSE s[i]]

\* str.lower()
Lower(s) == MapText(s, LowerChar)

RECURSIVE LStrip(_)
LStrip(s) == IF s # <<>> /\ IsSpace(Head(s)) THEN LStrip(Tail(s)) ELSE s

RECURSIVE RStrip(_)
RStrip(s) ==
    IF s # <<>> /\ IsSpace(s[Len(s)]) THEN RStrip(SubSeq(s, 1, Len(s) - 1)) ELSE s

\* str.strip()
Strip(s) == RStrip(LStrip(s))

\* re.sub(r"\s+", " ", s)
RECURSIVE CollapseSpaces(_)
CollapseSpaces(s) ==
    IF s = <<>> THEN <<>>
    ELSE IF IsSpace(Head(s)) THEN <<" ">> \o CollapseSpaces(LStrip(Tail(s)))
    ELSE <<Head(s)>> \o CollapseSpaces(Tail(s))

\* Python's  needle in hay
Contains(hay, needle) ==
    \E i \in 0..(Len(hay) - Len(needle)) :
        SubSeq(hay, i + 1, i + Len(needle)) = needle

(***************************************************************************)
(* NORMALIZATION HELPERS                                                   *)
(***************************************************************************)
\* a normaliser that collapses and trims before it replaces
normalize_persian_strips_first(text) ==
    IF text = NULL THEN <<>>
    ELSE LET s0 == Strip(CollapseSpaces(text))
             s1 == ReplaceChar(s0, "yeh_ar", "yeh")
             s2 == ReplaceChar(s1, "kaf_ar", "keheh")
             s3 == ReplaceChar(s2, "zwnj", " ")
         IN  RemoveChar(s3, "tatweel")

normalize_persian(text) ==
    IF text = NULL THEN <<>>
    ELSE LET s1 == ReplaceChar(text, "yeh_ar", "yeh")
             s2 == ReplaceChar(s1, "kaf_ar", "keheh")
             s3 == ReplaceChar(s2, "zwnj", " ")
             s4 == RemoveChar(s3, "tatweel")
         IN  Strip(CollapseSpaces(s4))

normalize_query(text) ==
    IF text = NULL \/ text = <<>> THEN <<>>
    ELSE LET t1 == Strip(text)
             t2 == SelectSeq(t1, LAMBDA x : x \notin {"?", "?ar"})
             t3 == CollapseSpaces(t2)
         IN  normalize_persian(t3)

(***************************************************************************)
(* parse_price.  A raw price is [t |-> "null"], [t |-> "int", v |-> n],    *)
(* [t |-> "float", v |-> tenths] (a finite float, in tenths),              *)
(* [t |-> "inf"] (a float infinity or NaN, for which int() raises) or      *)
(* [t |-> "str", v |-> text].                                              *)
(***************************************************************************)
RECURSIVE ToInt(_)
\* int() of a non-empty all-digit string
ToInt(ds) ==
    IF ds = <<>> THEN 0
    ELSE 10 * ToInt(SubSeq(ds, 1, Len(ds) - 1)) + DigitValue(ds[Len(ds)])

\* int() of a finite float truncates toward zero
TruncTenths(k) == IF k >= 0 THEN k \div 10 ELSE -((-k) \div 10)

\* _price_digits.sub("", s): every maximal run of non-digits is deleted
StripNonDigits(s) == SelectSeq(s, IsDigit)

RECURSIVE DigitPrefix(_)
DigitPrefix(s) ==
    IF s # <<>> /\ IsDigit(Head(s)) THEN <<Head(s)>> \o DigitPrefix(Tail(s)) ELSE <<>>

RECURSIVE SkipNonDigits(_)
SkipNonDigits(s) == IF s # <<>> /\ ~IsDigit(Head(s)) THEN SkipNonDigits(Tail(s)) ELSE s

\* the first maximal run of digits of a text
LeadingDigitRun(s) == DigitPrefix(SkipNonDigits(s))

\* a parser that keeps the leading digit run only
parse_price_leading_run(value) ==
    CASE value.t = "null"  -> None
      [] value.t = "int"   -> Some(value.v)
      [] value.t = "float" -> Some(TruncTenths(value.v))
      [] value.t = "inf"   -> None
      [] value.t = "str"   ->
            LET s1 == RemoveChar(RemoveChar(RemoveChar(value.v, ","), "sep"), " ")
                s2 == LeadingDigitRun(Strip(s1))
            IN  IF s2 = <<>> THEN None ELSE Some(ToInt(s2))

parse_price(value) ==
    CASE value.t = "null"  -> None
      [] value.t = "int"   -> Some(value.v)
      [] value.t = "float" -> Some(TruncTenths(value.v))
      [] value.t = "inf"   -> None
      [] value.t = "str"   ->
            LET s1 == RemoveChar(RemoveChar(RemoveChar(value.v, ","), "sep"), " ")
                s2 == StripNonDigits(Strip(s1))
            IN  IF s2 = <<>> THEN None ELSE Some(ToInt(s2))

\* int(d.get("qty")) with its exceptions turned into None
IntOfStr(s) ==
    LET t    == Strip(s)
        body == IF t # <<>> /\ Head(t) \in {"-", "+"} THEN Tail(t) ELSE t
    IN  IF body = <<>> \/ \E i \in 1..Len(body) : ~IsDigit(body[i]) THEN None
        ELSE IF Head(t) = "-" THEN Some(-ToInt(body)) ELSE Some(ToInt(body))

\* the outcome of a conversion whose exception nothing caught: a pair, which no
\* Optional[int] is
Raised == <<"raised", "ValueError">>

IsRaised(x) == Len(x) = 2

\* a quantity conversion without the try block
parse_qty_uncaught(value) ==
    CASE value.t = "null"  -> None
      [] value.t = "int"   -> Some(value.v)
      [] value.t = "float" -> Some(TruncTenths(value.v))
      [] value.t = "inf"   -> Raised
      [] value.t = "str"   -> IF IntOfStr(value.v) = None THEN Raised
                              ELSE IntOfStr(value.v)

\* int(d.get("qty")) if it is not None, inside try / except Exception
parse_qty(value) ==
    CASE value.t = "null"  -> None
      [] value.t = "int"   -> Some(value.v)
      [] value.t = "float" -> Some(TruncTenths(value.v))
      [] value.t = "inf"   -> None
      [] value.t = "str"   -> IntOfStr(value.v)

(***************************************************************************)
(* similarity: difflib.SequenceMatcher(None, a, b).ratio() on the          *)
(* normalised texts.  The ratio 2*M/T is kept as the fraction num/den.     *)
(***************************************************************************)
RECURSIVE RunLen(_, _, _, _, _, _)
\* length of the common run that starts at a[i] and b[j], inside a[..ahi], b[..bhi]
RunLen(a, b, i, j, ahi, bhi) ==
    IF i > ahi \/ j > bhi THEN 0
    ELSE IF a[i] # b[j] THEN 0
    ELSE 1 + RunLen(a, b, i + 1, j + 1, ahi, bhi)

\* SequenceMatcher.find_longest_match: the longest block, the earliest in a
\* among the longest, the earliest in b among those
find_longest_match(a, b, alo, ahi, blo, bhi) ==
    LET pairs == (alo..ahi) \X (blo..bhi)
        k     == [p \in pairs |-> RunLen(a, b, p[1], p[2], ahi, bhi)]
        sizes == {k[p] : p \in pairs}
        size  == CHOOSE m \in sizes : \A x \in sizes : m >= x
        is    == {p[1] : p \in {q \in pairs : k[q] = size}}
        i     == CHOOSE m \in is : \A x \in is : m <= x
        js    == {p[2] : p \in {q \in pairs : k[q] = size /\ q[1] = i}}
        j     == CHOOSE m \in js : \A x \in js : m <= x
    IN  [i |-> i, j |-> j, size |-> size]

RECURSIVE MatchedChars(_, _, _, _, _, _)
\* SequenceMatcher.get_matching_blocks: the sum of the block sizes
MatchedChars(a, b, alo, ahi, blo, bhi) ==
    IF alo > ahi \/ blo > bhi THEN 0
    ELSE LET m == find_longest_match(a, b, alo, ahi, blo, bhi)
         IN  IF m.size = 0 THEN 0
             ELSE m.size
                  + MatchedChars(a, b, alo, m.i - 1, blo, m.j - 1)
                  + MatchedChars(a, b, m.i + m.size, ahi, m.j + m.size, bhi)

\* SequenceMatcher.ratio(): 2.0 * matches / length, and 1.0 when both are empty
SequenceRatio(a, b) ==
    IF Len(a) + Len(b) = 0 THEN [num |-> 1, den |-> 1]
    ELSE [num |-> 2 * MatchedChars(a, b, 1, Len(a), 1, Len(b)),
          den |-> Len(a) + Len(b)]

similarity(a, b) == SequenceRatio(normalize_persian(a), normalize_persian(b))

\* the fuzzy cutoff of search, 0.72, as a fraction of 100
FuzzyCutoffPercent == 72

\* a cutoff that excludes the boundary
MeetsCutoffStrict(score) == 100 * score.num > FuzzyCutoffPercent * score.den

\* score >= 0.72
MeetsCutoff(score) == 100 * score.num >= FuzzyCutoffPercent * score.den

\* x[0] > y[0] for two ratios
RatioGreater(x, y) == x.num * y.den > y.num * x.den

(***************************************************************************)
(* list.sort: a stable sort.  Before(x, y) is "x sorts strictly before y"; *)
(* elements neither of which sorts before the other keep their order.      *)
(***************************************************************************)
\* the rank of seq[i]: the elements that sort before it, and the earlier ones
\* it does not sort before
StableSort(seq, Before(_, _)) ==
    LET n == Len(seq)
        rank == [i \in 1..n |->
                    Cardinality({j \in 1..n :
                        \/ Before(seq[j], seq[i])
                        \/ j < i /\ ~Before(seq[i], seq[j])})]
    IN  [r \in 1..n |-> seq[CHOOSE i \in 1..n : rank[i] = r - 1]]

\* seq[:n]
Take(seq, n) == SubSeq(seq, 1, Min2(Len(seq), n))

(***************************************************************************)
(* The catalog store and the alias map.                                    *)
(*   db            the rows of table products, a sequence of records with  *)
(*                 the ten selected columns under their result aliases;    *)
(*                 a text column holds a text or NULL, qty and price hold  *)
(*                 a raw value as described at parse_price                 *)
(*   BRAND_ALIASES the loaded alias dict, in file order: a sequence of     *)
(*                 [canonical |-> text, aliases |-> sequence of texts]     *)
(* The request in progress:                                                *)
(*   workload      the intents the caller may send (fixed by Init)         *)
(*   pc            "idle", "compiled", "connected", "fallback", "fuzzy",   *)
(*                 "fetched", "done", or "failed" when an exception left   *)
(*                 the handler                                             *)
(*   intent        the SearchIntent, query_text already normalised         *)
(*   sql           the compiled predicate (where clauses with parameters)  *)
(*   limit_final   the clamped limit                                       *)
(*   primary       the rows of the primary fetch                           *)
(*   name_seed     the seed of the fuzzy fallback                          *)
(*   fallback_ran  whether the request took the fallback branch            *)
(*   candidates    the rows of the fallback fetch                          *)
(*   rows          the rows the response is built from                     *)
(*   items         the dicts that passed the price filter, before sorting  *)
(*   response      the response envelope                                   *)
(*   conn          the request's store connection: "none", "open",         *)
(*                 "closed"                                                *)
(*   error         the exception the request raised: "none",               *)
(*                 "RuntimeError" (get_connection), "sqlite3.Error" (a     *)
(*                 store read), "ValueError" (a row's conversion)          *)
(*   peer          a second request served at the same time by another     *)
(*                 worker thread: a record of the same per-request fields  *)
(*   call          the last direct call of a pure function                 *)
(***************************************************************************)
VARIABLES db, BRAND_ALIASES, workload, pc, intent, sql, limit_final,
          primary, name_seed, fallback_ran, candidates, rows, items, response,
          conn, error, peer, call

vars == <<db, BRAND_ALIASES, workload, pc, intent, sql, limit_final,
          primary, name_seed, fallback_ran, candidates, rows, items, response,
          conn, error, peer, call>>

COL_NAME == "name"
COL_QTY == "qty"
COL_PRICE == "price"
COL_CAT == "category_code"
COL_AUTHOR == "author_or_type_or_age"
COL_TRANSLATOR == "translator_or_playtime"
COL_PUBLISHER == "publisher_or_brand"
COL_GROUP == "group_main"
COL_SYS == "system_code"
COL_GROUPFAMILY == "groupfamily"

(***************************************************************************)
(* SearchIntent and its defaults (the pydantic models).                    *)
(***************************************************************************)
NoCategory == [t |-> "none", v |-> <<>>]
CategoryStr(text) == [t |-> "str", v |-> text]
CategoryList(texts) == [t |-> "list", v |-> texts]

TextFilter == [include |-> <<>>, exclude |-> <<>>]
GroupFamilyTags == [include_all |-> <<>>, include_any |-> <<>>, exclude |-> <<>>]
PriceFilter == [min |-> None, max |-> None]
StockFilter == [in_stock_only |-> None]

Filters ==
    [name |-> TextFilter, author_or_type_or_age |-> TextFilter,
     translator_or_playtime |-> TextFilter, publisher_or_brand |-> TextFilter,
     group_main |-> TextFilter, groupfamily_tags |-> GroupFamilyTags,
     price |-> PriceFilter, stock |-> StockFilter]

SortSpec == [by |-> "relevance", direction |-> "desc"]

DefaultLimit == 10

SearchIntent ==
    [category_code |-> NoCategory, uploaded_only |-> TRUE, query_text |-> <<>>,
     filters |-> Filters, sort |-> SortSpec, limit |-> DefaultLimit, debug |-> FALSE]

(***************************************************************************)
(* SQL BUILDER.  A where clause is [op, col, terms]:                       *)
(*   "notnull"  col IS NOT NULL                                            *)
(*   "trimne"   TRIM(col) != ""                                            *)
(*   "eq"       col = ?                       terms = <<value>>            *)
(*   "in"       col IN (?, ...)               terms = the values           *)
(*   "like"     (col LIKE ? OR ...)           terms = the patterns' terms  *)
(*   "notlike"  (col IS NULL OR col NOT LIKE ?)                            *)
(*   "anylike"  the free-text OR over the six text columns                 *)
(* and the clauses are ANDed in order.                                     *)
(***************************************************************************)
Clause(op, col, terms) == [op |-> op, col |-> col, terms |-> terms]

\* the truth value Python gives intent.category_code
CategoryTruthy(cc) == cc.t # "none" /\ cc.v # <<>>

\* the cats list of build_sql and of the fallback, before any expansion
ResolveCats(cc) ==
    IF cc.t = "list"
    THEN LET kept == SelectSeq(cc.v, LAMBDA c : Strip(c) # <<>>)
         IN  [i \in 1..Len(kept) |-> Lower(Strip(normalize_persian(kept[i])))]
    ELSE <<Lower(Strip(normalize_persian(cc.v)))>>

pen_keywords ==
    << <<"khah", "waw", "dal", "keheh", "alef", "reh">>,
       <<"khah", "waw", "dal", "noon", "waw", "yeh", "seen">>,
       <<"reh", "waw", "alef", "noon", " ", "noon", "waw", "yeh", "seen">>,
       <<"heh", "dal", "yeh", "heh">>,
       <<"qaf", "lam", "meem">>,
       <<"noon", "feh", "yeh", "seen">>,
       <<"lam", "alef", "keheh", "tcheh", "reh", "yeh">> >>

\* an expansion that widens every category list that holds "s"
ExpandCatsAnyS(cats, query_text) ==
    LET q == normalize_persian(query_text)
    IN  IF (\E n \in 1..Len(cats) : cats[n] = <<"s">>)
           /\ \E n \in 1..Len(pen_keywords) : Contains(q, pen_keywords[n])
        THEN cats \o << <<"l">> >>
        ELSE cats

\* the optional auto-expand of the single category "s"
ExpandCats(cats, query_text) ==
    LET q == normalize_persian(query_text)
    IN  IF cats = << <<"s">> >>
           /\ \E n \in 1..Len(pen_keywords) : Contains(q, pen_keywords[n])
        THEN << <<"s">>, <<"l">> >>
        ELSE cats

CategoryClauses(i) ==
    IF ~CategoryTruthy(i.category_code) THEN <<>>
    ELSE LET cats == ExpandCats(ResolveCats(i.category_code), i.query_text)
         IN  IF Len(cats) = 1 THEN << Clause("eq", COL_CAT, cats) >>
             ELSE << Clause("in", COL_CAT, cats) >>

UploadedClauses(i) ==
    IF i.uploaded_only
    THEN << Clause("notnull", COL_GROUPFAMILY, <<>>),
            Clause("trimne", COL_GROUPFAMILY, <<>>) >>
    ELSE <<>>

\* [canonical] + aliases of one entry
AllTerms(entry) == <<entry.canonical>> \o entry.aliases

EntryHas(entry, t_norm) ==
    \E n \in 1..Len(AllTerms(entry)) :
        Lower(normalize_persian(AllTerms(entry)[n])) = t_norm

\* the group of the first entry, in dict order, that holds the term
expand_brand_terms(user_term) ==
    LET t_norm == Lower(normalize_persian(user_term))
        hits   == {n \in 1..Len(BRAND_ALIASES) : EntryHas(BRAND_ALIASES[n], t_norm)}
    IN  IF hits = {} THEN <<user_term>>
        ELSE AllTerms(BRAND_ALIASES[CHOOSE n \in hits : \A m \in hits : n <= m])

\* the OR block of one include term
IncludeClause(col, t) ==
    LET terms == IF col = COL_PUBLISHER /\ BRAND_ALIASES # <<>>
                 THEN expand_brand_terms(t) ELSE <<t>>
    IN  Clause("like", col, [n \in 1..Len(terms) |-> normalize_persian(terms[n])])

RECURSIVE IncludeClauses(_, _)
IncludeClauses(col, include) ==
    IF include = <<>> THEN <<>>
    ELSE LET t == normalize_persian(Head(include))
         IN  (IF t = <<>> THEN <<>> ELSE << IncludeClause(col, t) >>)
             \o IncludeClauses(col, Tail(include))

RECURSIVE ExcludeClauses(_, _)
ExcludeClauses(col, exclude) ==
    IF exclude = <<>> THEN <<>>
    ELSE LET t == normalize_persian(Head(exclude))
         IN  (IF t = <<>> THEN <<>> ELSE << Clause("notlike", col, <<t>>) >>)
             \o ExcludeClauses(col, Tail(exclude))

apply_text_filter(col, tf) ==
    IncludeClauses(col, tf.include) \o ExcludeClauses(col, tf.exclude)

RECURSIVE IncludeAllClauses(_)
IncludeAllClauses(terms) ==
    IF terms = <<>> THEN <<>>
    ELSE LET t == normalize_persian(Head(terms))
         IN  (IF t = <<>> THEN <<>> ELSE << Clause("like", COL_GROUPFAMILY, <<t>>) >>)
             \o IncludeAllClauses(Tail(terms))

IncludeAnyClauses(terms) ==
    LET any_terms == SelectSeq([n \in 1..Len(terms) |-> normalize_persian(terms[n])],
                               LAMBDA t : t # <<>>)
    IN  IF any_terms = <<>> THEN <<>>
        ELSE << Clause("like", COL_GROUPFAMILY, any_terms) >>

GroupFamilyClauses(gf) ==
    IncludeAllClauses(gf.include_all) \o IncludeAnyClauses(gf.include_any)
    \o ExcludeClauses(COL_GROUPFAMILY, gf.exclude)

FilterUsed(tf) == tf.include # <<>> \/ tf.exclude # <<>>

\* a test that counts a category only when it is truthy
user_filters_present_truthy(i) ==
    \/ CategoryTruthy(i.category_code)
    \/ FilterUsed(i.filters.name)
    \/ FilterUsed(i.filters.author_or_type_or_age)
    \/ FilterUsed(i.filters.translator_or_playtime)
    \/ FilterUsed(i.filters.publisher_or_brand)
    \/ FilterUsed(i.filters.group_main)
    \/ i.filters.groupfamily_tags.include_all # <<>>
    \/ i.filters.groupfamily_tags.include_any # <<>>
    \/ i.filters.groupfamily_tags.exclude # <<>>

user_filters_present(i) ==
    \/ i.category_code.t # "none"
    \/ FilterUsed(i.filters.name)
    \/ FilterUsed(i.filters.author_or_type_or_age)
    \/ FilterUsed(i.filters.translator_or_playtime)
    \/ FilterUsed(i.filters.publisher_or_brand)
    \/ FilterUsed(i.filters.group_main)
    \/ i.filters.groupfamily_tags.include_all # <<>>
    \/ i.filters.groupfamily_tags.include_any # <<>>
    \/ i.filters.groupfamily_tags.exclude # <<>>

FreeTextClauses(i) ==
    LET qtext == normalize_query(i.query_text)
    IN  IF qtext # <<>> /\ ~user_filters_present(i)
        THEN << Clause("anylike", "*", <<qtext>>) >>
        ELSE <<>>

build_sql(i) ==
    UploadedClauses(i)
    \o CategoryClauses(i)
    \o apply_text_filter(COL_NAME, i.filters.name)
    \o apply_text_filter(COL_AUTHOR, i.filters.author_or_type_or_age)
    \o apply_text_filter(COL_TRANSLATOR, i.filters.translator_or_playtime)
    \o apply_text_filter(COL_PUBLISHER, i.filters.publisher_or_brand)
    \o apply_text_filter(COL_GROUP, i.filters.group_main)
    \o GroupFamilyClauses(i.filters.groupfamily_tags)
    \o FreeTextClauses(i)

(***************************************************************************)
(* DB ACCESS: what SQLite does with a where clause.  TRIM(X) removes       *)
(* spaces only; LIKE ignores ASCII case and reads, in its pattern, _ as   *)
(* any one character and % as any run of characters (like_pattern does    *)
(* not escape them, and the statements have no ESCAPE); a comparison with  *)
(* NULL is not true.                                                       *)
(***************************************************************************)
RECURSIVE SqlTrimLeft(_)
SqlTrimLeft(s) == IF s # <<>> /\ Head(s) = " " THEN SqlTrimLeft(Tail(s)) ELSE s

RECURSIVE SqlTrimRight(_)
SqlTrimRight(s) ==
    IF s # <<>> /\ s[Len(s)] = " " THEN SqlTrimRight(SubSeq(s, 1, Len(s) - 1)) ELSE s

SqlTrim(s) == SqlTrimRight(SqlTrimLeft(s))

\* text LIKE pattern
RECURSIVE LikeMatch(_, _)
LikeMatch(pattern, text) ==
    IF pattern = <<>> THEN text = <<>>
    ELSE IF Head(pattern) = "%"
         THEN \/ LikeMatch(Tail(pattern), text)
              \/ text # <<>> /\ LikeMatch(pattern, Tail(text))
    ELSE IF Head(pattern) = "_"
         THEN text # <<>> /\ LikeMatch(Tail(pattern), Tail(text))
    ELSE /\ text # <<>>
         /\ LowerChar(Head(pattern)) = LowerChar(Head(text))
         /\ LikeMatch(Tail(pattern), Tail(text))

\* '%' + term + '%'
like_pattern(term) == <<"%">> \o term \o <<"%">>

\* v LIKE like_pattern(term); without a wildcard in the term this is the
\* substring test
SqlLike(v, term) ==
    /\ v # NULL
    /\ IF \E n \in 1..Len(term) : term[n] \in {"%", "_"}
       THEN LikeMatch(like_pattern(term), v)
       ELSE Contains(Lower(v), Lower(term))

TextColumns == <<COL_NAME, COL_AUTHOR, COL_TRANSLATOR, COL_PUBLISHER, COL_GROUP,
                 COL_GROUPFAMILY>>

Satisfies(row, c) ==
    CASE c.op = "notnull" -> row[c.col] # NULL
      [] c.op = "trimne"  -> row[c.col] # NULL /\ SqlTrim(row[c.col]) # <<>>
      [] c.op = "eq"      -> row[c.col] # NULL /\ row[c.col] = c.terms[1]
      [] c.op = "in"      -> row[c.col] # NULL
                             /\ \E n \in 1..Len(c.terms) : row[c.col] = c.terms[n]
      [] c.op = "like"    -> \E n \in 1..Len(c.terms) : SqlLike(row[c.col], c.terms[n])
      [] c.op = "notlike" -> row[c.col] = NULL \/ ~SqlLike(row[c.col], c.terms[1])
      [] c.op = "anylike" -> \E n \in 1..Len(TextColumns) :
                                SqlLike(row[TextColumns[n]], c.terms[1])

Matches(row, where) == \A n \in 1..Len(where) : Satisfies(row, where[n])

PrimaryCap == 1200
FallbackCap == 2500

\* cur.execute(... WHERE where LIMIT cap); cur.fetchall()
Fetch(where, cap) == Take(SelectSeq(db, LAMBDA row : Matches(row, where)), cap)

(***************************************************************************)
(* RANKING + POST-FILTER                                                   *)
(***************************************************************************)
RECURSIVE LcsRow(_, _, _, _)
\* one row of the longest-common-subsequence table: prev is the row of the
\* characters before ch, cur the part of this row already filled in
LcsRow(prev, ch, b, cur) ==
    LET j == Len(cur)
    IN  IF j > Len(b) THEN cur
        ELSE LcsRow(prev, ch, b,
                    Append(cur, IF ch = b[j] THEN prev[j] + 1
                                ELSE Max2(prev[j + 1], cur[j])))

RECURSIVE LcsTable(_, _, _)
LcsTable(a, b, prev) ==
    IF a = <<>> THEN prev
    ELSE LcsTable(Tail(a), b, LcsRow(prev, Head(a), b, <<0>>))

\* the longest common subsequence, which rapidfuzz's Indel ratio rests on
LcsLen(a, b) == LcsTable(a, b, [j \in 1..(Len(b) + 1) |-> 0])[Len(b) + 1]

\* the windows of the longer text that fuzz.partial_ratio aligns the shorter
\* text with: its prefixes shorter than n, its substrings of length n and its
\* suffixes of length at most n
Windows(long, n) ==
    {SubSeq(long, 1, k) : k \in 1..Min2(n - 1, Len(long))}
    \cup {SubSeq(long, k, k + n - 1) : k \in 1..(Len(long) - n + 1)}
    \cup {SubSeq(long, k, Len(long)) : k \in Max2(1, Len(long) - n + 1)..Len(long)}

\* fuzz.partial_ratio(q, field) / 100 as a fraction: the best Indel ratio
\* 2 * lcs / (len + len) of the shorter text and a window of the longer one;
\* with two texts of one length each is aligned with the windows of the
\* other; two empty texts are equal, and one empty text matches nothing
partial_ratio(q, field) ==
    LET short == IF Len(q) <= Len(field) THEN q ELSE field
        long  == IF Len(q) <= Len(field) THEN field ELSE q
        pairs == IF short = <<>> THEN {}
                 ELSE {<<short, w>> : w \in Windows(long, Len(short))}
                      \cup (IF Len(short) = Len(long)
                            THEN {<<long, w>> : w \in Windows(short, Len(long))}
                            ELSE {})
        parts == {[num |-> 2 * LcsLen(p[1], p[2]), den |-> Len(p[1]) + Len(p[2])] :
                     p \in pairs}
                 \cup {[num |-> 0, den |-> 1]}
    IN  IF q = <<>> /\ field = <<>> THEN [num |-> 1, den |-> 1]
        ELSE CHOOSE m \in parts : \A x \in parts : m.num * x.den >= x.num * m.den

\* int(weight * fuzz.partial_ratio(q, field)), the weight in hundredths
WeightedPartial(weight, q, field) ==
    LET r == partial_ratio(q, field)
    IN  (weight * r.num) \div r.den

WeightName == 95
WeightGroupFamily == 90
WeightAuthor == 75
WeightTranslator == 65
WeightPublisher == 55
WeightGroup == 50

\* a score without the guard on the empty query
compute_relevance_score_unguarded(i, row) ==
    LET q == normalize_query(i.query_text)
        parts == {WeightedPartial(WeightName, q, normalize_persian(row.name)),
                  WeightedPartial(WeightGroupFamily, q, normalize_persian(row.groupfamily)),
                  WeightedPartial(WeightAuthor, q, normalize_persian(row.author_or_type_or_age)),
                  WeightedPartial(WeightTranslator, q, normalize_persian(row.translator_or_playtime)),
                  WeightedPartial(WeightPublisher, q, normalize_persian(row.publisher_or_brand)),
                  WeightedPartial(WeightGroup, q, normalize_persian(row.group_main))}
    IN  CHOOSE m \in parts : \A x \in parts : m >= x

compute_relevance_score(i, row) ==
    LET q == normalize_query(i.query_text)
        parts == {WeightedPartial(WeightName, q, normalize_persian(row.name)),
                  WeightedPartial(WeightGroupFamily, q, normalize_persian(row.groupfamily)),
                  WeightedPartial(WeightAuthor, q, normalize_persian(row.author_or_type_or_age)),
                  WeightedPartial(WeightTranslator, q, normalize_persian(row.translator_or_playtime)),
                  WeightedPartial(WeightPublisher, q, normalize_persian(row.publisher_or_brand)),
                  WeightedPartial(WeightGroup, q, normalize_persian(row.group_main))}
    IN  IF q = <<>> THEN 0 ELSE CHOOSE m \in parts : \A x \in parts : m >= x

\* a filter that lets a row without a parsable price through
passes_price_filter_keeps_unparsed(i, row) ==
    LET pmin == i.filters.price.min
        pmax == i.filters.price.max
        price_val == parse_price(row.price)
    IN  IF pmin = None /\ pmax = None THEN TRUE
        ELSE IF price_val = None THEN TRUE
        ELSE IF pmin # None /\ price_val[1] < pmin[1] THEN FALSE
        ELSE IF pmax # None /\ price_val[1] > pmax[1] THEN FALSE
        ELSE TRUE

passes_price_filter(i, row) ==
    LET pmin == i.filters.price.min
        pmax == i.filters.price.max
        price_val == parse_price(row.price)
    IN  IF pmin = None /\ pmax = None THEN TRUE
        ELSE IF price_val = None THEN FALSE
        ELSE IF pmin # None /\ price_val[1] < pmin[1] THEN FALSE
        ELSE IF pmax # None /\ price_val[1] > pmax[1] THEN FALSE
        ELSE TRUE

(***************************************************************************)
(* The /search handler.                                                    *)
(***************************************************************************)
LimitFloor == 1
LimitCeiling == 50

\* a clamp that forgets the floor
ClampLimitNoFloor(limit) == Min2(limit, LimitCeiling)

\* max(1, min(intent.limit, 50))
ClampLimit(limit) == Max2(LimitFloor, Min2(limit, LimitCeiling))

\* a seed that falls through to the query when the include term is blank
NameSeedFallsThrough(i) ==
    IF i.filters.name.include # <<>>
       /\ normalize_query(i.filters.name.include[1]) # <<>>
    THEN normalize_query(i.filters.name.include[1])
    ELSE i.query_text

\* the seed of the fuzzy fallback
NameSeed(i) ==
    IF i.filters.name.include # <<>> THEN normalize_query(i.filters.name.include[1])
    ELSE i.query_text

\* the where clauses of the wider candidate fetch
FallbackWhere(i) ==
    UploadedClauses(i)
    \o (IF CategoryTruthy(i.category_code) /\ ResolveCats(i.category_code) # <<>>
        THEN << Clause("in", COL_CAT, ResolveCats(i.category_code)) >>
        ELSE <<>>)

\* the candidates the fuzzy filter keeps, each with its score
FuzzyMatches(seed, cands) ==
    LET scored == [n \in 1..Len(cands) |->
                      [score |-> similarity(seed, normalize_query(cands[n].name)),
                       pname |-> normalize_query(cands[n].name),
                       r     |-> cands[n]]]
    IN  SelectSeq(scored, LAMBDA m : m.pname # <<>> /\ MeetsCutoff(m.score))

\* fuzzy_matches.sort(key=lambda x: x[0], reverse=True); the rows of [:1200]
FuzzyRows(seed, cands) ==
    LET sorted == StableSort(FuzzyMatches(seed, cands),
                             LAMBDA x, y : RatioGreater(x.score, y.score))
        top    == Take(sorted, PrimaryCap)
    IN  [n \in 1..Len(top) |-> top[n].r]

\* an exception leaves the loop over rows at this row
RowRaises(r) == IsRaised(parse_price(r.price)) \/ IsRaised(parse_qty(r.qty))

\* the dict built from one fetched row, before the price filter
ToItem(i, r) ==
    LET d == [name                   |-> normalize_persian(r.name),
              author_or_type_or_age  |-> normalize_persian(r.author_or_type_or_age),
              translator_or_playtime |-> normalize_persian(r.translator_or_playtime),
              publisher_or_brand     |-> normalize_persian(r.publisher_or_brand),
              group_main             |-> normalize_persian(r.group_main),
              groupfamily            |-> normalize_persian(r.groupfamily),
              category_code          |-> Lower(Strip(normalize_persian(r.category_code))),
              system_code            |-> r.system_code,
              qty                    |-> r.qty,
              price                  |-> r.price,
              price_value            |-> parse_price(r.price),
              qty_value              |-> parse_qty(r.qty)]
    IN  [k \in DOMAIN d \cup {"score"} |->
            IF k = "score" THEN compute_relevance_score(i, d) ELSE d[k]]

\* a loop over rows that also drops the rows out of stock when the intent
\* asks for stock only
BuildItemsInStock(i, rs) ==
    LET all == [n \in 1..Len(rs) |-> ToItem(i, rs[n])]
    IN  SelectSeq(all, LAMBDA d :
            /\ passes_price_filter(i, d)
            /\ i.filters.stock.in_stock_only = Some(TRUE) =>
                  d.qty_value # None /\ d.qty_value[1] > 0)

\* the items list after the loop over rows
BuildItems(i, rs) ==
    LET all == [n \in 1..Len(rs) |-> ToItem(i, rs[n])]
    IN  SelectSeq(all, LAMBDA d : passes_price_filter(i, d))

\* the tuple order of the sort keys (value is None, value)
KeyLess(x, y) ==
    IF (x = None) # (y = None) THEN y = None
    ELSE IF x = y THEN FALSE
    ELSE x[1] < y[1]

\* a relevance sort that follows sort.direction
SortItemsByDirection(i, its) ==
    LET reverse == (i.sort.direction = "desc")
    IN  CASE i.sort.by = "price" ->
                StableSort(its, LAMBDA x, y :
                    IF reverse THEN KeyLess(y.price_value, x.price_value)
                    ELSE KeyLess(x.price_value, y.price_value))
          [] i.sort.by = "qty" ->
                StableSort(its, LAMBDA x, y :
                    IF reverse THEN KeyLess(y.qty_value, x.qty_value)
                    ELSE KeyLess(x.qty_value, y.qty_value))
          [] OTHER ->
                StableSort(its, LAMBDA x, y :
                    IF reverse THEN x.score > y.score ELSE x.score < y.score)

SortItems(i, its) ==
    LET reverse == (i.sort.direction = "desc")
    IN  CASE i.sort.by = "price" ->
                StableSort(its, LAMBDA x, y :
                    IF reverse THEN KeyLess(y.price_value, x.price_value)
                    ELSE KeyLess(x.price_value, y.price_value))
          [] i.sort.by = "qty" ->
                StableSort(its, LAMBDA x, y :
                    IF reverse THEN KeyLess(y.qty_value, x.qty_value)
                    ELSE KeyLess(x.qty_value, y.qty_value))
          [] OTHER ->
                StableSort(its, LAMBDA x, y : x.score > y.score)

\* items[:limit_final]
Truncate(its, limit) == Take(its, limit)

ResultOf(it) ==
    [name |-> it.name, qty |-> it.qty_value, price |-> it.price_value,
     category_code |-> it.category_code,
     author_or_type_or_age |-> it.author_or_type_or_age,
     translator_or_playtime |-> it.translator_or_playtime,
     publisher_or_brand |-> it.publisher_or_brand,
     group_main |-> it.group_main, groupfamily |-> it.groupfamily,
     system_code |-> it.system_code, score |-> it.score]

CategoryCounts(its) ==
    [cc \in {its[n].category_code : n \in 1..Len(its)} |->
        Cardinality({n \in 1..Len(its) : its[n].category_code = cc})]

NoResponse == [count |-> -1]
NoCall == [f |-> "none"]

\* a response that tallies the categories of the returned items only
EnvelopeTalliesReturned(i, built, out) ==
    [version |-> "1.0", query_text |-> i.query_text,
     category_code_used |-> i.category_code,
     uploaded_only |-> i.uploaded_only,
     count |-> Len(out),
     category_distribution |-> CategoryCounts(out),
     results |-> [n \in 1..Len(out) |-> ResultOf(out[n])]]

\* the response dict
Envelope(i, built, out) ==
    [version |-> "1.0", query_text |-> i.query_text,
     category_code_used |-> i.category_code,
     uploaded_only |-> i.uploaded_only,
     count |-> Len(out),
     category_distribution |-> CategoryCounts(built),
     results |-> [n \in 1..Len(out) |-> ResultOf(out[n])]]

\* a handler that swallows the exception of a store read and goes on
AfterRaiseSwallowed == "fetched"

\* search has no except clause: an exception raised by a store read leaves it
AfterRaise == "failed"

\* a handler that leaves its connection open
ConnLeaked == "open"

\* finally: conn.close()
ConnAfterFinally == "closed"

\* an expansion that inserts the canonical name into the alias list it found
AliasesAfterCompileInPlace(i) ==
    LET inc    == i.filters.publisher_or_brand.include
        t_norm == IF inc = <<>> THEN <<>> ELSE Lower(normalize_persian(inc[1]))
        hits   == {n \in 1..Len(BRAND_ALIASES) : EntryHas(BRAND_ALIASES[n], t_norm)}
    IN  IF inc = <<>> \/ hits = {} THEN BRAND_ALIASES
        ELSE LET n == CHOOSE n \in hits : \A m \in hits : n <= m
             IN  [BRAND_ALIASES EXCEPT
                     ![n].aliases = <<BRAND_ALIASES[n].canonical>> \o @]

\* the alias dict after build_sql(i): expand_brand_terms builds the new list
\* [canonical] + aliases and assigns nothing to the dict or to its lists
AliasesAfterCompile(i) == BRAND_ALIASES

\* the per-request variables
request == <<pc, intent, sql, limit_final, primary, name_seed, fallback_ran,
             candidates, rows, items, response, conn, error>>

\* a worker thread with no request
IdleRequest ==
    [pc |-> "idle", intent |-> SearchIntent, sql |-> <<>>,
     limit_final |-> DefaultLimit, primary |-> <<>>, name_seed |-> <<>>,
     fallback_ran |-> FALSE, candidates |-> <<>>, rows |-> <<>>, items |-> <<>>,
     response |-> NoResponse, conn |-> "none", error |-> "none"]

\* intent.query_text = normalize_query(...); build_sql(intent); the limit clamp
Receive(i) ==
    /\ pc = "idle"
    /\ intent' = [i EXCEPT !.query_text = normalize_query(i.query_text)]
    /\ sql' = build_sql(intent')
    /\ BRAND_ALIASES' = AliasesAfterCompile(intent')
    /\ limit_final' = ClampLimit(i.limit)
    /\ pc' = "compiled"
    /\ primary' = <<>>
    /\ name_seed' = <<>>
    /\ fallback_ran' = FALSE
    /\ candidates' = <<>>
    /\ rows' = <<>>
    /\ items' = <<>>
    /\ response' = NoResponse
    /\ conn' = "none"
    /\ error' = "none"
    /\ UNCHANGED <<db, workload, peer, call>>

\* conn = get_connection(), before the try block: RuntimeError when the store
\* file does not exist
Connect ==
    /\ pc = "compiled"
    /\ \E present \in BOOLEAN :
           IF present
           THEN pc' = "connected" /\ conn' = "open" /\ error' = error
           ELSE pc' = "failed" /\ conn' = conn /\ error' = "RuntimeError"
    /\ UNCHANGED <<db, BRAND_ALIASES, workload, intent, sql, limit_final, primary,
                   name_seed, fallback_ran, candidates, rows, items, response,
                   peer, call>>

\* cur.execute(sql, params); rows = cur.fetchall(); the name seed; the finally
\* block when the fallback is not due or the read raised
PrimaryFetch ==
    /\ pc = "connected"
    /\ \E ok \in BOOLEAN :
           IF ok
           THEN \E fetched \in {Fetch(sql, PrimaryCap)}, seed \in {NameSeed(intent)} :
                    /\ primary' = fetched
                    /\ name_seed' = seed
                    /\ rows' = fetched
                    /\ pc' = IF fetched = <<>> /\ seed # <<>> THEN "fallback"
                             ELSE "fetched"
                    /\ conn' = IF fetched = <<>> /\ seed # <<>> THEN conn
                               ELSE ConnAfterFinally
                    /\ error' = error
           ELSE /\ pc' = AfterRaise
                /\ conn' = ConnAfterFinally
                /\ error' = "sqlite3.Error"
                /\ UNCHANGED <<primary, name_seed, rows>>
    /\ UNCHANGED <<db, BRAND_ALIASES, workload, intent, sql, limit_final,
                   fallback_ran, candidates, items, response, peer, call>>

\* cur.execute(fallback_sql, p); candidates = cur.fetchall()
FallbackFetch ==
    /\ pc = "fallback"
    /\ \E ok \in BOOLEAN :
           IF ok
           THEN \E fetched \in {Fetch(FallbackWhere(intent), FallbackCap)} :
                    /\ candidates' = fetched
                    /\ pc' = "fuzzy"
                    /\ conn' = conn
                    /\ error' = error
           ELSE /\ pc' = AfterRaise
                /\ conn' = ConnAfterFinally
                /\ error' = "sqlite3.Error"
                /\ candidates' = candidates
    /\ UNCHANGED <<db, BRAND_ALIASES, workload, intent, sql, limit_final,
                   primary, name_seed, fallback_ran, rows, items, response,
                   peer, call>>

\* the fuzzy filter on the candidates' names, the sort by similarity and the
\* [:1200] slice, all inside the try block; then the finally block
FuzzyFilter ==
    /\ pc = "fuzzy"
    /\ rows' = FuzzyRows(name_seed, candidates)
    /\ fallback_ran' = TRUE
    /\ pc' = "fetched"
    /\ conn' = ConnAfterFinally
    /\ UNCHANGED <<db, BRAND_ALIASES, workload, intent, sql, limit_final,
                   primary, name_seed, candidates, items, response, error,
                   peer, call>>

\* the loop over rows, the sort, the truncation and the response dict; an
\* exception that a row's conversion lets out ends the request
Respond ==
    /\ pc = "fetched"
    /\ IF \E n \in 1..Len(rows) : RowRaises(rows[n])
       THEN /\ pc' = "failed"
            /\ error' = "ValueError"
            /\ UNCHANGED <<items, response>>
       ELSE /\ \E built \in {BuildItems(intent, rows)} :
               \E out \in {Truncate(SortItems(intent, built), limit_final)} :
                   /\ items' = built
                   /\ response' = Envelope(intent, built, out)
            /\ pc' = "done"
            /\ error' = error
    /\ UNCHANGED <<db, BRAND_ALIASES, workload, intent, sql, limit_final,
                   primary, name_seed, fallback_ran, candidates, rows,
                   conn, peer, call>>

\* the handler has returned the response or raised; the worker waits for the
\* next request
Return ==
    /\ pc \in {"done", "failed"}
    /\ pc' = "idle"
    /\ intent' = SearchIntent
    /\ sql' = <<>>
    /\ limit_final' = DefaultLimit
    /\ primary' = <<>>
    /\ name_seed' = <<>>
    /\ fallback_ran' = FALSE
    /\ candidates' = <<>>
    /\ rows' = <<>>
    /\ items' = <<>>
    /\ response' = NoResponse
    /\ conn' = "none"
    /\ error' = "none"
    /\ UNCHANGED <<db, BRAND_ALIASES, workload, peer, call>>

Next ==
    \/ \E i \in workload : Receive(i)
    \/ Connect
    \/ PrimaryFetch
    \/ FallbackFetch
    \/ FuzzyFilter
    \/ Respond
    \/ Return

(***************************************************************************)
(* A second request, served by another worker thread of the same process.  *)
(* Its locals are the fields of peer; db and BRAND_ALIASES are the ones    *)
(* the first request uses.  Each step is the step of the same name above.  *)
(***************************************************************************)
PeerReceive(i) ==
    /\ peer.pc = "idle"
    /\ \E norm \in {[i EXCEPT !.query_text = normalize_query(i.query_text)]} :
           /\ peer' = [IdleRequest EXCEPT !.pc = "compiled",
                                          !.intent = norm,
                                          !.sql = build_sql(norm),
                                          !.limit_final = ClampLimit(i.limit)]
           /\ BRAND_ALIASES' = AliasesAfterCompile(norm)
    /\ UNCHANGED <<db, workload, request, call>>

PeerConnect ==
    /\ peer.pc = "compiled"
    /\ \E present \in BOOLEAN :
           IF present
           THEN peer' = [peer EXCEPT !.pc = "connected", !.conn = "open"]
           ELSE peer' = [peer EXCEPT !.pc = "failed", !.error = "RuntimeError"]
    /\ UNCHANGED <<db, BRAND_ALIASES, workload, request, call>>

PeerPrimaryFetch ==
    /\ peer.pc = "connected"
    /\ \E ok \in BOOLEAN :
           IF ok
           THEN \E fetched \in {Fetch(peer.sql, PrimaryCap)},
                   seed \in {NameSeed(peer.intent)} :
                    peer' = [peer EXCEPT
                               !.primary = fetched,
                               !.name_seed = seed,
                               !.rows = fetched,
                               !.pc = IF fetched = <<>> /\ seed # <<>>
                                      THEN "fallback" ELSE "fetched",
                               !.conn = IF fetched = <<>> /\ seed # <<>>
                                        THEN @ ELSE ConnAfterFinally]
           ELSE peer' = [peer EXCEPT !.pc = AfterRaise,
                                     !.conn = ConnAfterFinally,
                                     !.error = "sqlite3.Error"]
    /\ UNCHANGED <<db, BRAND_ALIASES, workload, request, call>>

PeerFallbackFetch ==
    /\ peer.pc = "fallback"
    /\ \E ok \in BOOLEAN :
           IF ok
           THEN \E fetched \in {Fetch(FallbackWhere(peer.intent), FallbackCap)} :
                    peer' = [peer EXCEPT !.candidates = fetched, !.pc = "fuzzy"]
           ELSE peer' = [peer EXCEPT !.pc = AfterRaise,
                                     !.conn = ConnAfterFinally,
                                     !.error = "sqlite3.Error"]
    /\ UNCHANGED <<db, BRAND_ALIASES, workload, request, call>>

PeerFuzzyFilter ==
    /\ peer.pc = "fuzzy"
    /\ peer' = [peer EXCEPT !.rows = FuzzyRows(peer.name_seed, peer.candidates),
                            !.fallback_ran = TRUE,
                            !.pc = "fetched",
                            !.conn = ConnAfterFinally]
    /\ UNCHANGED <<db, BRAND_ALIASES, workload, request, call>>

PeerRespond ==
    /\ peer.pc = "fetched"
    /\ IF \E n \in 1..Len(peer.rows) : RowRaises(peer.rows[n])
       THEN peer' = [peer EXCEPT !.pc = "failed", !.error = "ValueError"]
       ELSE \E built \in {BuildItems(peer.intent, peer.rows)} :
               \E out \in {Truncate(SortItems(peer.intent, built), peer.limit_final)} :
                   peer' = [peer EXCEPT
                              !.items = built,
                              !.response = Envelope(peer.intent, built, out),
                              !.pc = "done"]
    /\ UNCHANGED <<db, BRAND_ALIASES, workload, request, call>>

PeerReturn ==
    /\ peer.pc \in {"done", "failed"}
    /\ peer' = IdleRequest
    /\ UNCHANGED <<db, BRAND_ALIASES, workload, request, call>>

NextConcurrent ==
    \/ \E i \in workload : Receive(i)
    \/ Connect
    \/ PrimaryFetch
    \/ FallbackFetch
    \/ FuzzyFilter
    \/ Respond
    \/ Return
    \/ \E i \in workload : PeerReceive(i)
    \/ PeerConnect
    \/ PeerPrimaryFetch
    \/ PeerFallbackFetch
    \/ PeerFuzzyFilter
    \/ PeerRespond
    \/ PeerReturn

(***************************************************************************)
(* Direct calls of the pure functions.                                     *)
(***************************************************************************)
CallParsePrice(value) ==
    /\ call = NoCall
    /\ call' = [f |-> "parse_price", arg |-> value, ret |-> parse_price(value)]
    /\ UNCHANGED <<db, BRAND_ALIASES, workload, request, peer>>

CallBuildSql(i) ==
    /\ call = NoCall
    /\ call' = [f |-> "build_sql", arg |-> i, ret |-> build_sql(i)]
    /\ UNCHANGED <<db, BRAND_ALIASES, workload, request, peer>>

CallNormalizePersian(text) ==
    /\ call = NoCall
    /\ call' = [f |-> "normalize_persian", arg |-> text, ret |-> normalize_persian(text)]
    /\ UNCHANGED <<db, BRAND_ALIASES, workload, request, peer>>

CallNormalizeQuery(text) ==
    /\ call = NoCall
    /\ call' = [f |-> "normalize_query", arg |-> text, ret |-> normalize_query(text)]
    /\ UNCHANGED <<db, BRAND_ALIASES, workload, request, peer>>

\* the call has returned
CallReturn ==
    /\ call # NoCall
    /\ call' = NoCall
    /\ UNCHANGED <<db, BRAND_ALIASES, workload, request, peer>>

(***************************************************************************)
(* Bounds and the inputs drawn within them.                                *)
(***************************************************************************)
\* rows of a store of the general scenario
MaxRows == 2
\* rows of a store of the ranking scenario
MaxRankRows == 3
\* rows of a store of the truncation scenario
MaxStoreRows == 54
\* characters of a raw price text
MaxPriceLen == 3
\* characters of a text to normalise
MaxTextLen == 3

SeqsUpTo(S, n) == UNION {[1..k -> S] : k \in 0..n}

RawNull == [t |-> "null", v |-> 0]
RawInt(n) == [t |-> "int", v |-> n]
RawFloat(tenths) == [t |-> "float", v |-> tenths]
RawInf == [t |-> "inf", v |-> 0]
RawStr(text) == [t |-> "str", v |-> text]

Row(name, groupfamily, cat, price, qty, publisher) ==
    [name |-> name, qty |-> qty, price |-> price, category_code |-> cat,
     author_or_type_or_age |-> NULL, translator_or_playtime |-> NULL,
     publisher_or_brand |-> publisher, group_main |-> NULL, system_code |-> 0,
     groupfamily |-> groupfamily]

\* the system code of a row is its position in the table
Store(rs) == [n \in 1..Len(rs) |-> [rs[n] EXCEPT !.system_code = n]]

Toman == <<"teh", "waw", "meem", "alef", "noon">>
Price12500 == <<"1", "2", ",", "5", "0", "0", " ">> \o Toman

MainPool ==
    { Row(<<"a", "b", "c", "d">>, <<"x">>, <<"s">>, RawStr(Price12500), RawInt(3),
          <<"f", "a", "b">>),
      Row(<<"a", "b", "c", "e">>, <<"zwnj">>, <<"l">>, RawStr(<<"dash">>),
          RawStr(<<"x">>), NULL),
      Row(<<"a", "b", "c", "d", "?">>, NULL, <<"S">>, RawNull, RawNull,
          <<"feh", "beh">>),
      Row(NULL, <<"x", ",", " ", "y">>, <<"s">>, RawInt(900), RawFloat(25), NULL),
      Row(<<"x", "y", "z">>, <<" ">>, NULL, RawFloat(9005), RawStr(<<"7">>), NULL),
      Row(<<"a", "b">>, <<"tab">>, <<"s">>, RawStr(<<>>), RawInt(0), NULL) }

\* rows that all hold "ab" in some text column, with scores 95, 95, 63 and 90
\* for the query "ab"
RankPool ==
    { Row(<<"a", "b">>, <<"x">>, <<"s">>, RawStr(<<"1", ",", "0", "0", "0">>),
          RawInt(5), NULL),
      Row(<<"a", "b">>, <<"x">>, <<"s">>, RawNull, RawStr(<<>>), NULL),
      Row(<<"x", "b">>, NULL, <<"l">>, RawStr(<<"2", ",", "0", " ", "x", "5", "0">>),
          RawStr(<<"x">>), <<"a", "b">>),
      Row(<<"z", "z">>, <<"a", "b">>, <<"S", " ">>, RawInt(500), RawInt(0), NULL) }

Seed9 == <<"a", "b", "c", "d", "e", "f", "g", "h", "i">>
Pad7 == <<"z", "z", "z", "z", "z", "z", "z">>

\* names whose similarity to Seed9 is 18/25, 10/14, 16/17 and 0
FuzzyPool ==
    { Row(Seed9 \o Pad7, <<"x">>, <<"s">>, RawInf, RawInf, NULL),
      Row(<<"a", "b", "c", "d", "e">>, <<"x">>, <<"s">>, RawNull, RawNull, NULL),
      Row(<<"a", "b", "c", "d", "e", "f", "g", "h">>, <<"zwnj">>, <<"l">>, RawNull,
          RawNull, NULL),
      Row(<<"?">>, <<"x">>, <<"s">>, RawNull, RawNull, NULL) }

EntryFabCas ==
    [canonical |-> <<"f", "a", "b", " ", "c", "a", "s">>,
     aliases |-> << <<"feh", "beh">>, <<"keheh", "seen">> >>]
EntryFab == [canonical |-> <<"f", "a", "b">>, aliases |-> << <<"feh", "beh">> >>]
EntryLam == [canonical |-> <<"l", "a", "m">>, aliases |-> << <<"lam", "meem">> >>]

\* alias maps as build_brand_aliases writes them: the first with brands whose
\* alias lists are disjoint, the second with a brand that is a part of another
AliasesDisjoint == <<EntryFabCas, EntryLam>>
AliasesShared == <<EntryFabCas, EntryFab>>

WithQuery(i, q) == [i EXCEPT !.query_text = q]
WithCategory(i, cc) == [i EXCEPT !.category_code = cc]
WithUploaded(i, b) == [i EXCEPT !.uploaded_only = b]
WithName(i, inc) == [i EXCEPT !.filters.name.include = inc]
WithPublisher(i, inc) == [i EXCEPT !.filters.publisher_or_brand.include = inc]
WithPrice(i, pf) == [i EXCEPT !.filters.price = pf]
WithSort(i, by, dir) == [i EXCEPT !.sort = [by |-> by, direction |-> dir]]
WithLimit(i, n) == [i EXCEPT !.limit = n]
WithFilter(i, field, tf) == [i EXCEPT !.filters[field] = tf]
WithTags(i, gf) == [i EXCEPT !.filters.groupfamily_tags = gf]
WithStock(i, flag) == [i EXCEPT !.filters.stock.in_stock_only = flag]

Qalam == <<"qaf", "lam", "meem">>

MainIntents ==
    { WithName(WithQuery(WithCategory(WithUploaded(SearchIntent, u), cc), q), inc) :
        u \in BOOLEAN,
        cc \in {NoCategory, CategoryStr(<<"s">>)},
        q \in {<<>>, <<"a", "b", "c", "d">>, <<"a", "b", "c", "x">>, <<"?">>},
        inc \in {<<>>, << <<" ">> >>, << <<"a", "b", "c", "x">>, <<"x", "y", "z">> >>} }
    \cup { WithPublisher(SearchIntent, << t >>) :
             t \in {<<"f", "a", "b">>, <<"feh", "beh">>} }
    \cup { WithQuery(WithCategory(SearchIntent, cc), <<"a", "b", "c", "x">>) :
             cc \in {CategoryList(<< <<"s">>, <<"l">> >>), CategoryList(<< <<" ">> >>)} }

RankIntents ==
    { WithLimit(WithPrice(WithSort(WithQuery(WithUploaded(SearchIntent, FALSE),
                                             <<"a", "b">>), by, dir), pf), n) :
        by \in {"relevance", "price", "qty"},
        dir \in {"asc", "desc"},
        pf \in {PriceFilter, [min |-> Some(500), max |-> Some(1000)],
                [min |-> None, max |-> Some(600)]},
        n \in {1, 2, 10} }

FuzzyIntents ==
    { WithUploaded(WithQuery(SearchIntent, Seed9), u) : u \in BOOLEAN }
    \cup { WithName(WithUploaded(SearchIntent, FALSE), << Seed9 \o <<"?">> >>) }

LimitIntents ==
    { WithLimit(WithPrice(WithUploaded(SearchIntent, FALSE), pf), n) :
        pf \in {PriceFilter, [min |-> None, max |-> Some(5000)]},
        n \in {-2, 0, 1, 10, 50, 51, 70} }
    \cup { WithLimit(WithQuery(WithUploaded(SearchIntent, FALSE), q), 60) :
             q \in {<<"a">>, <<"b">>} }

ConcurrentPool ==
    { Row(<<"a", "b", "c", "d">>, <<"x">>, <<"s">>, RawStr(Price12500), RawInt(3),
          <<"f", "a", "b">>),
      Row(<<"a", "b", "c", "d", "?">>, <<"y">>, <<"l">>, RawNull, RawNull,
          <<"feh", "beh">>),
      Row(<<"x", "y", "z">>, <<"x">>, NULL, RawInf, RawStr(<<"7">>), NULL) }

ConcurrentIntents ==
    { WithPublisher(SearchIntent, << t >>) :
        t \in {<<"f", "a", "b">>, <<"feh", "beh">>} }
    \cup { WithQuery(SearchIntent, q) :
             q \in {<<"a", "b", "c", "d">>, <<"a", "b", "c", "x">>} }

\* rows in stock, with quantity zero and with a quantity that does not parse
StockPool ==
    { Row(<<"a", "b", "c", "d">>, <<"x">>, <<"s">>, RawInt(500), RawInt(5), NULL),
      Row(<<"a", "b", "c", "d">>, <<"x">>, <<"l">>, RawInt(500), RawInt(0), NULL),
      Row(<<"a", "b", "c", "d">>, <<"x">>, <<"s">>, RawNull, RawStr(<<"x">>), NULL) }

\* in_stock_only absent, true and false, on a query the primary fetch answers
\* and on one that takes the fuzzy fallback
StockIntents ==
    { WithStock(WithQuery(WithUploaded(SearchIntent, FALSE), q), flag) :
        q \in {<<"a", "b", "c", "d">>, <<"a", "b", "c", "x">>},
        flag \in {None, Some(TRUE), Some(FALSE)} }

\* k rows, all priced but the 2nd, 22nd and 42nd
LimitRows(k) ==
    [n \in 1..k |->
        Row(<<"a">>, NULL, <<"s">>,
            IF n % 20 = 2 THEN RawNull ELSE RawStr(<<"1", ",", "0", "0", "0">>),
            RawInt(n), NULL)]

PriceChars == {"1", "2", ",", " ", "a", "p5"}

PriceInputs ==
    {RawStr(t) : t \in SeqsUpTo(PriceChars, MaxPriceLen)}
    \cup {RawStr(Price12500), RawStr(<<"dash">>), RawNull, RawInt(12500), RawFloat(125009)}

TextChars == {"yeh_ar", "kaf_ar", "zwnj", "tatweel", " ", "tab", "?", "a"}

TextInputs == SeqsUpTo(TextChars, MaxTextLen) \cup {NULL}

CategoryInputs ==
    {NoCategory, CategoryStr(<<"s">>), CategoryStr(<<"S", " ">>), CategoryStr(<<"l">>),
     CategoryStr(<<>>),
     CategoryList(<< <<"s">> >>), CategoryList(<< <<"s">>, <<"l">> >>),
     CategoryList(<< <<"s">>, <<" ">> >>), CategoryList(<< <<"s">>, <<"s">> >>),
     CategoryList(<< <<"l">>, <<"s">> >>), CategoryList(<< <<"l">> >>),
     CategoryList(<< <<" ">> >>), CategoryList(<<>>)}

QueryInputs ==
    {<<>>, Qalam, <<"a", "b">>, <<"a", " ">> \o Qalam \o <<"?">>,
     <<"reh", "waw", "alef", "noon", "zwnj", "noon", "waw", "yeh_ar", "seen">>,
     <<"qaf", "lam">>}

BrandInputs ==
    {<<"f", "a", "b", " ", "c", "a", "s">>, <<"f", "a", "b">>, <<"F", "A", "B">>,
     <<"feh", "beh">>, <<"keheh", "seen">>, <<"kaf_ar", "seen">>, <<"l", "a", "m">>,
     <<"lam", "meem">>, <<"a", "b">>}

\* the five per-field text filters of Filters
TextFields == {"name", "author_or_type_or_age", "translator_or_playtime",
               "publisher_or_brand", "group_main"}

\* include and exclude terms: plain, blank, to be normalised, with the LIKE
\* wildcard characters
TermInputs == {<<"x">>, <<" ">>, <<"kaf_ar", "zwnj">>, <<"_">>, <<"a", "%", "c">>}

TextFilterInputs ==
    {[include |-> << t >>, exclude |-> <<>>] : t \in TermInputs}
    \cup {[include |-> <<>>, exclude |-> << t >>] : t \in TermInputs}
    \cup {[include |-> <<>>, exclude |-> << <<"x">>, <<" ">>, <<"b">> >>]}

TagInputs ==
    {[include_all |-> << t >>, include_any |-> <<>>, exclude |-> <<>>] : t \in TermInputs}
    \cup {[include_all |-> <<>>, include_any |-> << t >>, exclude |-> <<>>] : t \in TermInputs}
    \cup {[include_all |-> <<>>, include_any |-> <<>>, exclude |-> << t >>] : t \in TermInputs}
    \cup {[include_all |-> <<>>, include_any |-> <<>>,
           exclude |-> << <<"x">>, <<" ">>, <<"b">> >>]}

FilterInputs ==
    { WithQuery(WithUploaded(WithFilter(SearchIntent, field, tf), FALSE), q) :
        field \in TextFields, tf \in TextFilterInputs, q \in {<<>>, <<"a", "b">>} }
    \cup { WithQuery(WithUploaded(WithTags(SearchIntent, gf), FALSE), q) :
              gf \in TagInputs, q \in {<<>>, <<"a", "b">>} }

CompileInputs ==
    { WithQuery(WithCategory(WithUploaded(SearchIntent, u), cc), q) :
        u \in BOOLEAN, cc \in CategoryInputs, q \in QueryInputs }
    \cup { WithPublisher(SearchIntent, << t >>) : t \in BrandInputs }
    \cup FilterInputs

Idle ==
    /\ pc = "idle"
    /\ intent = SearchIntent
    /\ sql = <<>>
    /\ limit_final = DefaultLimit
    /\ primary = <<>>
    /\ name_seed = <<>>
    /\ fallback_ran = FALSE
    /\ candidates = <<>>
    /\ rows = <<>>
    /\ items = <<>>
    /\ response = NoResponse
    /\ conn = "none"
    /\ error = "none"
    /\ peer = IdleRequest
    /\ call = NoCall

Init ==
    /\ \/ /\ db \in {Store(rs) : rs \in SeqsUpTo(MainPool, MaxRows)}
          /\ workload = MainIntents
          /\ BRAND_ALIASES = AliasesShared
       \/ /\ db \in {Store(rs) : rs \in SeqsUpTo(RankPool, MaxRankRows)}
          /\ workload = RankIntents
          /\ BRAND_ALIASES = <<>>
       \/ /\ db \in {Store(rs) : rs \in SeqsUpTo(FuzzyPool, MaxRows)}
          /\ workload = FuzzyIntents
          /\ BRAND_ALIASES = <<>>
    /\ Idle

Spec == Init /\ [][Next]_vars

InitLimit ==
    /\ db \in {Store(LimitRows(k)) : k \in 0..MaxStoreRows}
    /\ workload = LimitIntents
    /\ BRAND_ALIASES = <<>>
    /\ Idle

SpecLimit == InitLimit /\ [][Next]_vars

\* two requests at a time: alias-expanding publisher filters, a query that the
\* primary fetch answers and one that takes the fuzzy fallback
InitConcurrent ==
    /\ db \in {Store(rs) : rs \in SeqsUpTo(ConcurrentPool, MaxRows)}
    /\ workload = ConcurrentIntents
    /\ BRAND_ALIASES = AliasesShared
    /\ Idle

SpecConcurrent == InitConcurrent /\ [][NextConcurrent]_vars

\* two requests at a time that may differ in filters.stock.in_stock_only only
InitStock ==
    /\ db \in {Store(rs) : rs \in SeqsUpTo(StockPool, MaxRows)}
    /\ workload = StockIntents
    /\ BRAND_ALIASES = <<>>
    /\ Idle

SpecStock == InitStock /\ [][NextConcurrent]_vars

InitCalls ==
    /\ db = <<>>
    /\ workload = {}
    /\ BRAND_ALIASES \in {<<>>, AliasesDisjoint, AliasesShared}
    /\ Idle

NextCalls ==
    \/ \E value \in PriceInputs : CallParsePrice(value)
    \/ \E i \in CompileInputs : CallBuildSql(i)
    \/ \E text \in TextInputs : CallNormalizePersian(text)
    \/ \E text \in TextInputs : CallNormalizeQuery(text)
    \/ CallReturn

SpecCalls == InitCalls /\ [][NextCalls]_vars

(***************************************************************************)
(* Properties.                                                             *)
(***************************************************************************)
Results == response.results

\* the position in rows of the row with system code c
PosInRows(c) == CHOOSE n \in 1..Len(rows) : rows[n].system_code = c

\* the rows of the request that pass the price post-filter
RemainingRows == SelectSeq(rows, LAMBDA r : passes_price_filter(intent, r))

\* C1: for every limit (0, negative and above 50 included) the number of
\* returned items is min(rows remaining after the price post-filter,
\* clamp(limit, 1, 50)), and the envelope's count is that number.
C1_LimitClamp ==
    pc = "done" =>
        LET clamped == IF intent.limit < 1 THEN 1
                       ELSE IF intent.limit > 50 THEN 50 ELSE intent.limit
        IN  /\ Len(Results) = Min2(Len(RemainingRows), clamped)
            /\ response.count = Len(Results)

\* C1 witness: more than 50 rows remain and a limit above 50 returns 50 items
C1_Witness ==
    /\ pc = "done"
    /\ intent.limit > 50
    /\ intent.filters.price.max # None
    /\ Len(RemainingRows) > 50
    /\ Len(rows) > Len(RemainingRows)
    /\ response.count = 50

\* C2: with uploaded_only = true every returned item has a non-empty
\* groupfamily, on the primary path and on the fallback path.
C2_UploadedNonEmpty ==
    pc = "done" /\ intent.uploaded_only =>
        \A n \in 1..Len(Results) : Results[n].groupfamily # <<>>

\* the category clauses of a compiled predicate accept a row of category code
CatAccepts(where, code) ==
    LET cs == SelectSeq(where, LAMBDA c : c.col = COL_CAT)
    IN  /\ cs # <<>>
        /\ \A n \in 1..Len(cs) : Satisfies([category_code |-> code], cs[n])

HasPenKeyword(query_text) ==
    \E n \in 1..Len(pen_keywords) :
        Contains(normalize_persian(query_text), pen_keywords[n])

InList(cats, code) == \E n \in 1..Len(cats) : cats[n] = code

\* C3 as stated: the single stationery code with a pen keyword compiles a
\* predicate that matches stationery and luxury pen, without a keyword one that
\* matches stationery only, and a category_code given as a list is never
\* widened.
C3_ListNeverWidened ==
    call.f = "build_sql" /\ CategoryTruthy(call.arg.category_code) =>
        LET cc   == call.arg.category_code
            cats == ResolveCats(cc)
            kw   == HasPenKeyword(call.arg.query_text)
        IN  /\ cc.t = "str" /\ cats = << <<"s">> >> /\ kw =>
                CatAccepts(call.ret, <<"s">>) /\ CatAccepts(call.ret, <<"l">>)
            /\ cc.t = "str" /\ cats = << <<"s">> >> /\ ~kw =>
                CatAccepts(call.ret, <<"s">>) /\ ~CatAccepts(call.ret, <<"l">>)
            /\ cc.t = "list" =>
                \A code \in {<<"s">>, <<"l">>} :
                    CatAccepts(call.ret, code) <=> InList(cats, code)

\* C3 as amended: a category_code, string or list, that resolves to exactly
\* the stationery code is widened to stationery and luxury pen when the query
\* holds a pen keyword and matches stationery only when it holds none; a list
\* that resolves to two or more codes is never widened.
C3_ExpandSingleOnly ==
    call.f = "build_sql" /\ CategoryTruthy(call.arg.category_code) =>
        LET cats == ResolveCats(call.arg.category_code)
            kw   == HasPenKeyword(call.arg.query_text)
        IN  /\ cats = << <<"s">> >> /\ kw =>
                CatAccepts(call.ret, <<"s">>) /\ CatAccepts(call.ret, <<"l">>)
            /\ cats = << <<"s">> >> /\ ~kw =>
                CatAccepts(call.ret, <<"s">>) /\ ~CatAccepts(call.ret, <<"l">>)
            /\ Len(cats) >= 2 =>
                \A code \in {<<"s">>, <<"l">>} :
                    CatAccepts(call.ret, code) <=> InList(cats, code)

\* C3 witness: a one-code list "s" with a pen keyword is compiled to a
\* predicate that accepts luxury pens
C3_Witness ==
    /\ call.f = "build_sql"
    /\ call.arg.category_code = CategoryList(<< <<"s">> >>)
    /\ HasPenKeyword(call.arg.query_text)
    /\ CatAccepts(call.ret, <<"l">>)

\* C4: for every canonical brand k of the alias map and every alias a of k,
\* publisher include=[a] compiles to the same clauses, with the same LIKE
\* parameters in the same order, as publisher include=[k].
C4_AliasSymmetry ==
    call.f = "build_sql" =>
        \A n \in 1..Len(BRAND_ALIASES) :
            \A m \in 1..Len(BRAND_ALIASES[n].aliases) :
                call.arg = WithPublisher(SearchIntent, << BRAND_ALIASES[n].aliases[m] >>)
                => call.ret =
                     build_sql(WithPublisher(SearchIntent, << BRAND_ALIASES[n].canonical >>))

\* the seed as the claim words it: the first include term of the name filter
\* if there is one, else the normalised free-text query
SeedAsStated ==
    IF Len(intent.filters.name.include) > 0
    THEN normalize_query(intent.filters.name.include[1])
    ELSE normalize_query(intent.query_text)

\* C5: the fuzzy fallback runs if and only if the primary fetch returned no
\* row and a name seed is derivable; with no seed it does not run and the
\* result set stays empty.
C5_FallbackIff ==
    LET due == primary = <<>> /\ SeedAsStated # <<>>
    IN  /\ pc = "fallback" => due
        /\ pc \in {"fetched", "done"} => (fallback_ran <=> due)
        /\ pc = "done" /\ primary = <<>> /\ SeedAsStated = <<>> =>
              ~fallback_ran /\ Results = <<>>

\* C5 witness: an empty primary fetch with a seed taken from the query, and
\* the fallback found rows
C5_Witness ==
    /\ pc = "done"
    /\ primary = <<>>
    /\ intent.filters.name.include = <<>>
    /\ fallback_ran
    /\ response.count > 0

\* the similarity of the seed and a candidate's name, as a fraction
CandidateSimilarity(r) == similarity(name_seed, normalize_query(r.name))

\* C6: when the fallback runs a fetched candidate is kept exactly when the
\* similarity of the seed and its name is at least 0.72.
C6_Cutoff ==
    pc \in {"fetched", "done"} /\ fallback_ran =>
        \A n \in 1..Len(candidates) :
            (\E m \in 1..Len(rows) : rows[m] = candidates[n])
            <=> 100 * CandidateSimilarity(candidates[n]).num
                  >= 72 * CandidateSimilarity(candidates[n]).den

\* C6 witness: a candidate at exactly 0.72 is kept and one at 10/14 is dropped
C6_Witness ==
    /\ pc = "fetched"
    /\ fallback_ran
    /\ \E m \in 1..Len(rows) :
          /\ CandidateSimilarity(rows[m]).num * 100 = 72 * CandidateSimilarity(rows[m]).den
    /\ \E n \in 1..Len(candidates) :
          /\ CandidateSimilarity(candidates[n]).num * 7 = 5 * CandidateSimilarity(candidates[n]).den
          /\ \A m \in 1..Len(rows) : rows[m] # candidates[n]

PriceBoundSet == intent.filters.price.min # None \/ intent.filters.price.max # None

\* C7: with a price bound set no returned row has a price below min or above
\* max and no fetched row with an unparsable price is returned; with no bound
\* every fetched row passes the filter.
C7_PriceFilter ==
    pc = "done" =>
        LET pmin == intent.filters.price.min
            pmax == intent.filters.price.max
        IN  IF PriceBoundSet
            THEN /\ \A n \in 1..Len(Results) :
                        /\ Results[n].price # None
                        /\ pmin # None => Results[n].price[1] >= pmin[1]
                        /\ pmax # None => Results[n].price[1] <= pmax[1]
                 /\ \A n \in 1..Len(rows) :
                        parse_price(rows[n].price) = None =>
                            \A m \in 1..Len(Results) :
                                Results[m].system_code # rows[n].system_code
            ELSE [n \in 1..Len(items) |-> items[n].system_code]
                   = [n \in 1..Len(rows) |-> rows[n].system_code]

\* C7 witness: under a bound a row without a parsable price and a row above
\* max were fetched, and a row was returned
C7_Witness ==
    /\ pc = "done"
    /\ intent.filters.price.max # None
    /\ \E n \in 1..Len(rows) : parse_price(rows[n].price) = None
    /\ \E n \in 1..Len(rows) :
          /\ parse_price(rows[n].price) # None
          /\ parse_price(rows[n].price)[1] > intent.filters.price.max[1]
    /\ response.count > 0

\* the text with its thousands separators removed
WithoutSeparators(s) == SelectSeq(s, LAMBDA c : c \notin {",", "sep"})

\* C8 as stated: parse_price keeps only the leading digit run of the field,
\* thousands separators removed; a field without digits or null is absent.
C8_LeadingDigitRun ==
    call.f = "parse_price" =>
        CASE call.arg.t = "str" ->
                LET run == LeadingDigitRun(WithoutSeparators(call.arg.v))
                IN  call.ret = IF run = <<>> THEN None ELSE Some(ToInt(run))
          [] call.arg.t = "null" -> call.ret = None
          [] OTHER -> TRUE

\* C8 as amended: parse_price deletes every non-digit character of the field
\* and parses all the digits that remain, of every digit run, as one number:
\* "12,500 toman" is 12500, and a field without digits or null is absent.
C8_AllDigits ==
    call.f = "parse_price" =>
        /\ call.arg.t = "str" =>
              LET digits == SelectSeq(call.arg.v, IsDigit)
              IN  call.ret = IF digits = <<>> THEN None ELSE Some(ToInt(digits))
        /\ call.arg = RawStr(Price12500) => call.ret = Some(12500)
        /\ call.arg \in {RawStr(<<"dash">>), RawStr(<<>>), RawNull} => call.ret = None

\* C8 witness: a field with two digit runs parses to the digits of both
C8_Witness ==
    /\ call.f = "parse_price"
    /\ call.arg = RawStr(<<"1", "a", "2">>)
    /\ call.ret = Some(12)

\* the sort key of a returned item
SortKey(r) == IF intent.sort.by = "price" THEN r.price ELSE r.qty

\* C9: sorted by price or by qty, every returned row without a value comes
\* after all rows that have one, in both directions, and the rows that have a
\* value are in the requested order.
C9_NullsLast ==
    pc = "done" /\ intent.sort.by \in {"price", "qty"} =>
        \A m, n \in 1..Len(Results) :
            m < n =>
                /\ SortKey(Results[m]) = None => SortKey(Results[n]) = None
                /\ SortKey(Results[m]) # None /\ SortKey(Results[n]) # None =>
                      IF intent.sort.direction = "asc"
                      THEN SortKey(Results[m])[1] <= SortKey(Results[n])[1]
                      ELSE SortKey(Results[m])[1] >= SortKey(Results[n])[1]

\* C10: sorted by relevance the results are in descending score order for
\* either direction, and rows of equal score keep their retrieval order.
C10_RelevanceStable ==
    pc = "done" /\ intent.sort.by = "relevance" =>
        \A m, n \in 1..Len(Results) :
            m < n =>
                /\ Results[m].score >= Results[n].score
                /\ Results[m].score = Results[n].score =>
                      PosInRows(Results[m].system_code) < PosInRows(Results[n].system_code)

\* C10 witness: direction asc, two returned rows tie and a third scores less
C10_Witness ==
    /\ pc = "done"
    /\ intent.sort.by = "relevance"
    /\ intent.sort.direction = "asc"
    /\ \E m, n \in 1..Len(Results) :
          /\ m < n
          /\ Results[m].score = Results[n].score
          /\ Results[m].score > 0
    /\ \E m, n \in 1..Len(Results) : Results[m].score > Results[n].score

\* the caller set none of the structured filters of the intent
NoStructuredFilter(i) ==
    /\ i.category_code.t = "none"
    /\ \A field \in TextFields :
           i.filters[field].include = <<>> /\ i.filters[field].exclude = <<>>
    /\ i.filters.groupfamily_tags.include_all = <<>>
    /\ i.filters.groupfamily_tags.include_any = <<>>
    /\ i.filters.groupfamily_tags.exclude = <<>>

\* the free-text clauses of a compiled predicate
FreeText(where) == SelectSeq(where, LAMBDA c : c.op = "anylike")

\* rows to try a compiled clause on
ProbeRows == MainPool \cup RankPool \cup FuzzyPool

\* C11: build_sql adds the free-text clause, one OR over name, author,
\* translator, publisher, group and groupfamily that matches the normalised
\* query, exactly when the caller set no structured filter (no category, no
\* per-field include or exclude, no groupfamily tag filter) and the normalised
\* query is not empty; in every other case the predicate has no such clause.
C11_FreeTextOnlyUnfiltered ==
    call.f = "build_sql" =>
        LET q  == normalize_query(call.arg.query_text)
            ft == FreeText(call.ret)
        IN  IF NoStructuredFilter(call.arg) /\ q # <<>>
            THEN /\ Len(ft) = 1
                 /\ ft[1].terms = <<q>>
                 /\ call.ret[Len(call.ret)] = ft[1]
                 /\ \A r \in ProbeRows :
                        Satisfies(r, ft[1]) <=>
                            \E col \in {"name", "author_or_type_or_age",
                                         "translator_or_playtime", "publisher_or_brand",
                                         "group_main", "groupfamily"} :
                                SqlLike(r[col], q)
            ELSE ft = <<>>

\* C11 witness: an intent without structured filters and with a query that
\* normalisation changes is compiled with the free-text clause
C11_Witness ==
    /\ call.f = "build_sql"
    /\ NoStructuredFilter(call.arg)
    /\ call.arg.uploaded_only
    /\ normalize_query(call.arg.query_text) # call.arg.query_text
    /\ Len(FreeText(call.ret)) = 1

\* the weights of the six fields, in hundredths
ClaimedWeights ==
    {[f |-> "name", w |-> 95], [f |-> "groupfamily", w |-> 90],
     [f |-> "author_or_type_or_age", w |-> 75],
     [f |-> "translator_or_playtime", w |-> 65],
     [f |-> "publisher_or_brand", w |-> 55], [f |-> "group_main", w |-> 50]}

\* C12: the score of every row is 0 when the normalised query is empty, and
\* otherwise floor(max over the six fields of ratio x weight) with the weights
\* 0.95, 0.90, 0.75, 0.65, 0.55 and 0.50; it is an integer in 0..100.
C12_ScoreFormula ==
    pc = "done" =>
        \A n \in 1..Len(items) :
            LET sc == items[n].score
                q  == normalize_query(intent.query_text)
            IN  /\ sc \in 0..100
                /\ q = <<>> => sc = 0
                /\ q # <<>> =>
                      /\ \E fw \in ClaimedWeights :
                             LET r == partial_ratio(q, items[n][fw.f])
                             IN  fw.w * r.num >= sc * r.den
                      /\ \A fw \in ClaimedWeights :
                             LET r == partial_ratio(q, items[n][fw.f])
                             IN  fw.w * r.num < (sc + 1) * r.den

\* C12 witness: a row whose best weighted ratio is not an integer and is
\* rounded down, and a row whose score comes from a field other than the name
C12_Witness ==
    /\ pc = "done"
    /\ intent.query_text # <<>>
    /\ \E n \in 1..Len(items) :
          /\ items[n].score > 0
          /\ \A fw \in ClaimedWeights :
                 LET r == partial_ratio(intent.query_text, items[n][fw.f])
                 IN  fw.w * r.num # items[n].score * r.den
    /\ \E n \in 1..Len(items) :
          /\ items[n].score > 0
          /\ partial_ratio(intent.query_text, items[n].name).num = 0

\* C13: normalize_persian and normalize_query are idempotent: normalising a
\* normalised text again gives the same text.
C13_Idempotent ==
    /\ call.f = "normalize_persian" => normalize_persian(call.ret) = call.ret
    /\ call.f = "normalize_query" => normalize_query(call.ret) = call.ret

\* C13 witness: a query with a question mark, a zero-width non-joiner and an
\* Arabic yeh is normalised to the Persian yeh alone
C13_Witness ==
    /\ call.f = "normalize_query"
    /\ call.arg = <<"?", "zwnj", "yeh_ar">>
    /\ call.ret = <<"yeh">>

\* the key a row is tallied under: its normalised, trimmed, lower-cased
\* category code
CategoryKey(r) == Lower(Strip(normalize_persian(r.category_code)))

RECURSIVE SumCounts(_, _)
\* the sum of the counts f[k] for the keys k in S
SumCounts(f, S) ==
    IF S = {} THEN 0
    ELSE LET k == CHOOSE k \in S : TRUE
         IN  f[k] + SumCounts(f, S \ {k})

\* C14: category_distribution counts, under its normalised category code, every
\* row that passed the price post-filter, before sorting and truncation: its
\* counts add up to the number of rows that passed, which is at least the
\* envelope's count, and no rejected row is counted.
C14_DistributionBeforeTruncation ==
    pc = "done" =>
        LET dist == response.category_distribution
        IN  /\ DOMAIN dist = {CategoryKey(RemainingRows[n]) : n \in 1..Len(RemainingRows)}
            /\ \A cc \in DOMAIN dist :
                   dist[cc] = Cardinality({n \in 1..Len(RemainingRows) :
                                              CategoryKey(RemainingRows[n]) = cc})
            /\ SumCounts(dist, DOMAIN dist) = Len(RemainingRows)
            /\ SumCounts(dist, DOMAIN dist) >= response.count

\* C14 witness: under a price bound a fetched row was rejected, more rows
\* passed than were returned, and a counted row's stored code is not its key
C14_Witness ==
    /\ pc = "done"
    /\ PriceBoundSet
    /\ Len(rows) > Len(RemainingRows)
    /\ Len(RemainingRows) > response.count
    /\ \E n \in 1..Len(RemainingRows) :
          RemainingRows[n].category_code # CategoryKey(RemainingRows[n])

\* C15: whatever price and quantity values the fetched rows hold (null, empty,
\* non-numeric text, numbers) and whatever the sort key and direction, the
\* step that processes the rows ends with a response envelope, and every row
\* that passes the price filter is in the result set before truncation, its
\* quantity parsable or not.
C15_RowProblemsNeverAbort ==
    [][pc = "fetched" =>
          /\ pc' = "done"
          /\ response' # NoResponse
          /\ response'.count = Min2(Len(items'), limit_final)
          /\ \A n \in 1..Len(rows) :
                 passes_price_filter(intent, rows[n]) =>
                     \E m \in 1..Len(items') :
                         items'[m].system_code = rows[n].system_code]_vars

\* C15 witness: sorted by quantity, rows with an empty, a non-numeric and a
\* numeric quantity and with a null price are all returned
C15_Witness ==
    /\ pc = "done"
    /\ intent.sort.by = "qty"
    /\ \E n \in 1..Len(items) : items[n].qty = RawStr(<<>>) /\ items[n].price = RawNull
    /\ \E n \in 1..Len(items) : items[n].qty = RawStr(<<"x">>)
    /\ \E n \in 1..Len(items) : items[n].qty_value # None
    /\ response.count = 3

\* C16: when the store is missing or a store read fails, the request ends in
\* an error: it has no response envelope and no items, and it does nothing
\* more than return the error, so no result list is built from rows fetched
\* before the failure.
C16_StoreFailureNoEnvelope ==
    /\ [](error \in {"RuntimeError", "sqlite3.Error"} =>
             pc = "failed" /\ response = NoResponse /\ items = <<>>)
    /\ [][pc = "failed" => pc' = "idle" /\ response' = NoResponse]_vars

\* C16 witness: the primary fetch was empty, the fallback was due and the read
\* of the candidates failed
C16_Witness ==
    /\ pc = "failed"
    /\ error = "sqlite3.Error"
    /\ name_seed # <<>>
    /\ db # <<>>
    /\ response = NoResponse

(***************************************************************************)
(* C17  The pipeline is read-only on the catalog store and the alias map:  *)
(* no step of either of two concurrent requests changes db or              *)
(* BRAND_ALIASES, and under every interleaving the response of each        *)
(* request is the response the same intent produces when it runs alone on  *)
(* the same store and alias map.                                           *)
(***************************************************************************)
\* the response of a request that runs alone, for a normalised intent
SoloResponse(i) ==
    LET prim  == Fetch(build_sql(i), PrimaryCap)
        seed  == NameSeed(i)
        rs    == IF prim = <<>> /\ seed # <<>>
                 THEN FuzzyRows(seed, Fetch(FallbackWhere(i), FallbackCap))
                 ELSE prim
        built == BuildItems(i, rs)
    IN  Envelope(i, built, Truncate(SortItems(i, built), ClampLimit(i.limit)))

C17_ReadOnlyInterleaving ==
    /\ [][db' = db /\ BRAND_ALIASES' = BRAND_ALIASES]_vars
    /\ [](/\ pc = "done" => response = SoloResponse(intent)
          /\ peer.pc = "done" => peer.response = SoloResponse(peer.intent))

C17_Witness ==
    /\ pc = "done" /\ response.count > 0
    /\ intent.filters.publisher_or_brand.include = << <<"feh", "beh">> >>
    /\ peer.pc = "fuzzy" /\ peer.conn = "open" /\ peer.candidates # <<>>
    /\ BRAND_ALIASES = AliasesShared

(***************************************************************************)
(* C18  Every row returned through the fuzzy fallback satisfies the        *)
(* intent's uploaded_only condition and, whenever category_code was        *)
(* supplied, has a category code in the supplied category set.             *)
(***************************************************************************)
\* the category codes an intent supplies, normalised as the handler does
SuppliedCategories(cc) ==
    IF cc.t = "list"
    THEN {Lower(Strip(normalize_persian(cc.v[n]))) : n \in 1..Len(cc.v)}
    ELSE {Lower(Strip(normalize_persian(cc.v)))}

C18_FallbackHonorsCategory ==
    pc = "done" /\ fallback_ran =>
        \A n \in 1..Len(rows) :
            /\ Matches(rows[n], UploadedClauses(intent))
            /\ CategoryTruthy(intent.category_code) =>
                  /\ rows[n][COL_CAT] # NULL
                  /\ rows[n][COL_CAT] \in SuppliedCategories(intent.category_code)

(***************************************************************************)
(* C19  For each per-field text filter and for the groupfamily tags, every *)
(* exclude term that is not empty after normalisation yields its own       *)
(* negated clause on the field's column, and each such clause is null-safe *)
(* substring exclusion: a null field value passes it, and a non-null value *)
(* passes it exactly when the value does not contain the normalised term.  *)
(***************************************************************************)
\* the exclude terms of an intent with their columns, in compile order
ExcludeTerms(i) ==
    LET per(col, ex) == [n \in 1..Len(ex) |-> [col |-> col, t |-> normalize_persian(ex[n])]]
        all == per(COL_NAME, i.filters.name.exclude)
               \o per(COL_AUTHOR, i.filters.author_or_type_or_age.exclude)
               \o per(COL_TRANSLATOR, i.filters.translator_or_playtime.exclude)
               \o per(COL_PUBLISHER, i.filters.publisher_or_brand.exclude)
               \o per(COL_GROUP, i.filters.group_main.exclude)
               \o per(COL_GROUPFAMILY, i.filters.groupfamily_tags.exclude)
    IN  SelectSeq(all, LAMBDA e : e.t # <<>>)

\* field values to try an exclude clause on
ProbeValues ==
    {NULL, <<>>, <<"x">>, <<"a", "b", "c">>, <<"a", "c">>, <<"a", "_", "c">>,
     <<"X", "y">>, <<"keheh">>, <<"_">>, <<"a", "%", "c">>}

C19_ExcludeNullSafeSubstring ==
    call.f = "build_sql" =>
        \E negated \in {SelectSeq(call.ret, LAMBDA c : c.op = "notlike")} :
        \E wanted \in {ExcludeTerms(call.arg)} :
            /\ Len(negated) = Len(wanted)
            /\ \A n \in 1..Len(negated) :
                  /\ negated[n].col = wanted[n].col
                  /\ \A v \in ProbeValues :
                        Satisfies([f \in {negated[n].col} |-> v], negated[n])
                        <=> \/ v = NULL
                            \/ ~Contains(Lower(v), Lower(wanted[n].t))

(***************************************************************************)
(* C20  Every connection that search opens is closed before the request    *)
(* ends, on every path, and no row processing (normalisation, price        *)
(* filter, scoring, sorting) happens while the connection is open: every   *)
(* step that processes rows, the fuzzy filter of the fallback and the      *)
(* building of the response, starts with the connection closed.            *)
(***************************************************************************)
C20_NoProcessingWhileOpen ==
    /\ [](pc \in {"done", "failed"} => conn # "open")
    /\ [][(pc \in {"fuzzy", "fetched"} /\ pc' # pc) => (conn = "closed")]_vars

(***************************************************************************)
(* C20, as the code has it: the connection is open from get_connection     *)
(* through the reads and through the fuzzy filter of the fallback, which   *)
(* normalises, scores and sorts the candidate rows inside the try block;   *)
(* it is closed when the rows of the response are processed, and a request *)
(* that has ended holds no open connection: it has closed the one it       *)
(* opened, or get_connection raised and none was opened.                   *)
(***************************************************************************)
C20_ClosedBeforeResponse ==
    /\ pc \in {"connected", "fallback", "fuzzy"} => conn = "open"
    /\ pc = "fetched" => conn = "closed"
    /\ pc \in {"done", "failed"} =>
          \/ conn = "closed"
          \/ conn = "none" /\ error = "RuntimeError"

C20_Witness ==
    /\ pc = "done" /\ fallback_ran /\ conn = "closed"
    /\ candidates # <<>> /\ response.count > 0

(***************************************************************************)
(* C21  The response does not depend on filters.stock.in_stock_only: two   *)
(* requests on the same store whose intents differ in that flag only have  *)
(* the same compiled predicate, the same primary rows and name seed and so *)
(* the same fallback decision, and the same response; rows with quantity   *)
(* zero or with a quantity that does not parse are returned when the flag  *)
(* is true.                                                                *)
(***************************************************************************)
\* two intents that differ in filters.stock and in nothing else
SameButStock(a, b) ==
    /\ a.filters.stock # b.filters.stock
    /\ [a EXCEPT !.filters.stock = StockFilter] = [b EXCEPT !.filters.stock = StockFilter]

\* the request is past its primary fetch and nothing raised
PastPrimary(p) == p \in {"fallback", "fuzzy", "fetched", "done"}

\* the request took the fallback branch
TookFallback(p, ran) == p \in {"fallback", "fuzzy"} \/ ran

C21_StockFlagIgnored ==
    SameButStock(intent, peer.intent) =>
        /\ sql = peer.sql
        /\ PastPrimary(pc) /\ PastPrimary(peer.pc) =>
              /\ primary = peer.primary
              /\ name_seed = peer.name_seed
              /\ TookFallback(pc, fallback_ran) = TookFallback(peer.pc, peer.fallback_ran)
              /\ (pc \in {"fetched", "done"} /\ peer.pc \in {"fetched", "done"} =>
                     fallback_ran = peer.fallback_ran /\ rows = peer.rows)
        /\ pc = "done" /\ peer.pc = "done" => response = peer.response

C21_Witness ==
    /\ pc = "done" /\ peer.pc = "done"
    /\ SameButStock(intent, peer.intent)
    /\ intent.filters.stock.in_stock_only = Some(TRUE)
    /\ peer.intent.filters.stock.in_stock_only = None
    /\ fallback_ran
    /\ \E n \in 1..Len(response.results) : response.results[n].qty = Some(0)
    /\ \E n \in 1..Len(response.results) : response.results[n].qty = None
    /\ response = peer.response

====
